---------------------------- MODULE Spec2Model ----------------------------
(***************************************************************************)
(* A model of yt2srt.py: the audio download with its file cache, the       *)
(* transcription call, the numbered subtitle path, the SRT writer and the  *)
(* orchestrating function process_youtube_to_srt.                          *)
(*                                                                         *)
(* Python strings are tuples of one-character strings, so that split,      *)
(* slicing, lower, strip, splitext and the format specifications are       *)
(* computed character by character.  Times are integers counting ticks of  *)
(* 1/TicksPerSecond seconds; TicksPerSecond is a power of two, so every    *)
(* modelled offset is a binary floating point number on which the          *)
(* arithmetic of sec_to_timestamp is exact.                                *)
(***************************************************************************)
EXTENDS Integers, Sequences, FiniteSets, TLC

VARIABLES
  fs,          \* the file system: absolute path -> content of the file there
  cwd,         \* cwd[p]: current working directory of process p
  pc,          \* pc[p]: where process p is in process_youtube_to_srt
  args,        \* args[p]: url, format and model_size of the current call
  audio_path,  \* audio_path[p]: what download_youtube_audio returned
  result,      \* result[p]: the segments mlx_whisper.transcribe returned
  srt_path,    \* srt_path[p]: the path generate_srt resolved / returned
  trace,       \* trace[p]: what the current run has done (history)
  last_audio,  \* the last successful download_youtube_audio call (history)
  runs,        \* runs[p]: number of calls process p has started
  sec,         \* codec: the two offsets handed to sec_to_timestamp
  stamp,       \* codec: the two timestamps returned
  segments,    \* serializer: the segments handed to write_srt
  document,    \* serializer: the file write_srt produced
  model_size,  \* selector: the model_size handed to generate_srt
  model_path   \* selector: the model identifier handed to the engine

vars == <<fs, cwd, pc, args, audio_path, result, srt_path, trace, last_audio,
          runs, sec, stamp, segments, document, model_size, model_path>>

pipelineVars == <<fs, cwd, pc, args, audio_path, result, srt_path, trace,
                  last_audio, runs>>
codecVars    == <<sec, stamp>>
srtVars      == <<segments, document>>
selectVars   == <<model_size, model_path>>

-----------------------------------------------------------------------------
(* Characters and strings                                                  *)

\* The printable ASCII characters in code order, from code 32 (space); the
\* grave accent (code 96), which no string of the model holds, is spelled out.
Ascii ==
  <<" ", "!", "\"", "#", "$", "%", "&", "'", "(", ")", "*", "+", ",", "-", ".", "/", "0", "1", "2", "3", "4", "5", "6", "7", "8", "9", ":", ";", "<", "=", ">", "?", "@", "A", "B", "C", "D", "E", "F", "G", "H", "I", "J", "K", "L", "M", "N", "O", "P", "Q", "R", "S", "T", "U", "V", "W", "X", "Y", "Z", "[", "\\", "]", "^", "_">>
    \o <<"grave">> \o <<"a", "b", "c", "d", "e", "f", "g", "h", "i", "j", "k", "l", "m", "n", "o", "p", "q", "r", "s", "t", "u", "v", "w", "x", "y", "z", "{", "|", "}", "~">>

\* ord(c)
Ord(c) ==
  IF c = "\n" THEN 10
  ELSE IF c = "\t" THEN 9
  ELSE 31 + (CHOOSE i \in 1..Len(Ascii) : Ascii[i] = c)

\* chr(n) for a printable n
Chr(n) == Ascii[n - 31]

\* str.lower() on one character, then on a string
LowerChar(c) == IF Ord(c) >= 65 /\ Ord(c) <= 90 THEN Chr(Ord(c) + 32) ELSE c
Lower(s) == [i \in 1..Len(s) |-> LowerChar(s[i])]

UpperChar(c) == IF Ord(c) >= 97 /\ Ord(c) <= 122 THEN Chr(Ord(c) - 32) ELSE c

\* the characters str.strip() removes
IsSpace(c) == c \in {" ", "\n", "\t"}

RECURSIVE LStrip(_)
LStrip(s) == IF s # <<>> /\ IsSpace(Head(s)) THEN LStrip(Tail(s)) ELSE s

RECURSIVE RStrip(_)
RStrip(s) ==
  IF s # <<>> /\ IsSpace(s[Len(s)]) THEN RStrip(SubSeq(s, 1, Len(s) - 1)) ELSE s

\* str.strip()
Strip(s) == RStrip(LStrip(s))

\* s[:n]
Take(s, n) == SubSeq(s, 1, IF Len(s) < n THEN Len(s) ELSE n)

\* s[i:] (0-based i)
Drop(s, i) == SubSeq(s, i + 1, Len(s))

\* the 1-based positions at which sep occurs in s
Occurrences(s, sep) ==
  {i \in 1..(Len(s) - Len(sep) + 1) : SubSeq(s, i, i + Len(sep) - 1) = sep}

Max(S) == CHOOSE x \in S : \A y \in S : y <= x

\* s.split(sep)[-1]: what follows the last occurrence of sep, all of s if none
SplitLast(s, sep) ==
  IF Occurrences(s, sep) = {} THEN s
  ELSE Drop(s, Max(Occurrences(s, sep)) + Len(sep) - 1)

\* the decimal digits of n >= 0
RECURSIVE Dec(_)
Dec(n) == IF n < 10 THEN <<Chr(48 + n)>> ELSE Dec(n \div 10) \o <<Chr(48 + (n % 10))>>

\* zero padding on the left up to width w
RECURSIVE ZFill(_, _)
ZFill(s, w) == IF Len(s) >= w THEN s ELSE ZFill(<<"0">> \o s, w)

\* f"{n:02}" / f"{n:02d}" and f"{n:03}"
Format02(n) == ZFill(Dec(n), 2)
Format03(n) == ZFill(Dec(n), 3)

-----------------------------------------------------------------------------
(* write_srt and its sec_to_timestamp                                      *)

\* ticks per second: offsets are multiples of 2^-11 s (0.49 ms)
TicksPerSecond == 2^11

\* int(sec // 3600)
Hours(t) == (t \div TicksPerSecond) \div 3600

\* int((sec % 3600) // 60)
Minutes(t) == ((t % (3600 * TicksPerSecond)) \div TicksPerSecond) \div 60

\* int(sec % 60)
Seconds(t) == (t % (60 * TicksPerSecond)) \div TicksPerSecond

\* Milliseconds as it would be were the fraction rounded, not truncated
MillisecondsRounded(t) ==
  (((t % TicksPerSecond) * 1000) + (TicksPerSecond \div 2)) \div TicksPerSecond

\* int((sec - int(sec)) * 1000): int() truncates
Milliseconds(t) == ((t - (t \div TicksPerSecond) * TicksPerSecond) * 1000) \div TicksPerSecond

\* f"{hours:02}:{minutes:02}:{seconds:02},{milliseconds:03}"
sec_to_timestamp(t) ==
  Format02(Hours(t)) \o <<":">> \o Format02(Minutes(t)) \o <<":">>
    \o Format02(Seconds(t)) \o <<",">> \o Format03(Milliseconds(t))

\* SegmentText as it would be were only the leading whitespace removed
SegmentTextLeft(seg) == LStrip(seg.text)

\* text = seg["text"].strip()
SegmentText(seg) == Strip(seg.text)

\* the three f.write calls of the iteration for the i-th segment, i from 1
WriteBlock(i, seg) ==
  Dec(i) \o <<"\n">>
    \o sec_to_timestamp(seg.start) \o <<" ", "-", "-", ">", " ">> \o sec_to_timestamp(seg.end) \o <<"\n">>
    \o SegmentText(seg) \o <<"\n", "\n">>

\* the loop of write_srt, having written `done` of the segments into f
RECURSIVE WriteLoop(_, _, _)
WriteLoop(f, segs, done) ==
  IF done = Len(segs) THEN f
  ELSE WriteLoop(f \o WriteBlock(done + 1, segs[done + 1]), segs, done + 1)

\* write_srt(segments, srt_path): the content of the file it leaves
write_srt(segs) == WriteLoop(<<>>, segs, 0)

-----------------------------------------------------------------------------
(* The model table of generate_srt                                         *)

\* model_map
model_map ==
  { <<<<"t", "i", "n", "y">>,       "mlx-community/whisper-tiny-mlx">>,
    <<<<"b", "a", "s", "e">>,       "mlx-community/whisper-base-mlx">>,
    <<<<"s", "m", "a", "l", "l">>,      "mlx-community/whisper-small-mlx">>,
    <<<<"m", "e", "d", "i", "u", "m">>,     "mlx-community/whisper-medium-mlx">>,
    <<<<"l", "a", "r", "g", "e">>,      "mlx-community/whisper-large-v3-mlx">>,
    <<<<"l", "a", "r", "g", "e", "-", "4", "b", "i", "t">>, "mlx-community/whisper-large-v3-mlx-4bit">>,
    <<<<"t", "u", "r", "b", "o">>,      "mlx-community/whisper-large-v3-turbo">>,
    <<<<"t", "u", "r", "b", "o", "-", "4", "b", "i", "t">>, "mlx-community/whisper-large-v3-turbo-q4">> }

\* dict.get(key, default)
Get(map, key, default) ==
  IF \E e \in map : e[1] = key
  THEN (CHOOSE e \in map : e[1] = key)[2]
  ELSE default

\* ModelKey as it would be were model_size looked up as given
ModelKeyAsGiven(size) == size

\* model_size.lower(), the key looked up and the name put in the file name
ModelKey(size) == Lower(size)

\* model_path = model_map.get(model_size.lower(), <default>)
ModelPath(size) ==
  Get(model_map, ModelKey(size), "mlx-community/whisper-large-v3-turbo-q4")

-----------------------------------------------------------------------------
(* Inputs of the three pure parts                                          *)

HourSamples   == {0, 1, 100}
MinuteSamples == {0, 1, 59}
SecondSamples == {0, 1, 59}

\* every fraction of a second, at some hours, minutes and seconds
TimeInputs ==
  { ((h * 60 + m) * 60 + s) * TicksPerSecond + f :
      h \in HourSamples, m \in MinuteSamples, s \in SecondSamples,
      f \in 0..(TicksPerSecond - 1) }

\* the second offset follows the first by one of these
TimeDeltas == {0, 1, TicksPerSecond, 60 * TicksPerSecond}

\* 3661.5 s
T3661_5 == 3661 * TicksPerSecond + TicksPerSecond \div 2

\* 1.5 s
T1_5 == TicksPerSecond + TicksPerSecond \div 2

SegmentTimes == {0, T1_5, T3661_5}
SegmentTexts == { <<" ", "H", "e", "l", "l", "o", " ", "w", "o", "r", "l", "d", " ">>, <<"h", "i">>, <<"\n", " ", "\t">> }
SegmentSamples ==
  [start : SegmentTimes, end : SegmentTimes, text : SegmentTexts]

\* longest list of segments handed to write_srt
MaxSegs == 2

SegmentLists == UNION { [1..n -> SegmentSamples] : n \in 0..MaxSegs }

\* how many leading characters of a selector are tried in both cases
MaskLen == 4

OtherSelectors == { <<"h", "u", "g", "e">>, <<>>, <<"t", "i", "n", "y", " ">>, <<"t", "u", "r", "b", "o", "_", "4", "b", "i", "t">> }

CaseVariant(name, mask) ==
  [i \in 1..Len(name) |-> IF i \in mask THEN UpperChar(name[i]) ELSE name[i]]

SelectorInputs ==
  { CaseVariant(name, mask) :
      name \in {e[1] : e \in model_map} \cup OtherSelectors,
      mask \in SUBSET (1..MaskLen) }

NoFile == [exists |-> FALSE, content |-> <<>>]
File(c) == [exists |-> TRUE, content |-> c]

-----------------------------------------------------------------------------
(* Paths                                                                   *)

\* None; `not x` holds of None and of the empty string alike
None == <<>>
Falsy(x) == x = <<>>

\* os.path.join(a, b) for a relative b
Join(a, b) == a \o <<"/">> \o b

\* os.path.exists(path), path absolute
Exists(files, path) == path \in DOMAIN files

\* the last position of character c in s, 0 if there is none
LastIndex(s, c) ==
  IF \E i \in 1..Len(s) : s[i] = c
  THEN Max({i \in 1..Len(s) : s[i] = c})
  ELSE 0

\* os.path.splitext(path)[0]: the extension starts at the last dot of the
\* last component, unless only dots precede it there
SplitextRoot(path) ==
  LET sep == LastIndex(path, "/")
      dot == LastIndex(path, ".")
  IN  IF dot > sep /\ \E i \in (sep + 1)..(dot - 1) : path[i] # "."
      THEN SubSeq(path, 1, dot - 1)
      ELSE path

\* video_id = url.split('watch?v=')[-1][:11]
VideoIdLen == 11
VideoId(url) == Take(SplitLast(url, <<"w", "a", "t", "c", "h", "?", "v", "=">>), VideoIdLen)

\* expected_file = f'youtube_{video_id}.{format}'
ExpectedFile(url, format) == <<"y", "o", "u", "t", "u", "b", "e", "_">> \o VideoId(url) \o <<".">> \o format

\* workspace_dir = os.path.join(os.getcwd(), 'whisper_workspace')
WorkspaceDir(dir) == Join(dir, <<"w", "h", "i", "s", "p", "e", "r", "_", "w", "o", "r", "k", "s", "p", "a", "c", "e">>)

\* srt_base_path = f"{base_name}_{model_short_name}.srt"
SrtBasePath(base_name, short) == base_name \o <<"_">> \o short \o <<".", "s", "r", "t">>

\* f"{base_name}_{model_short_name}_{counter:02d}.srt"
SrtNumberedPath(base_name, short, counter) ==
  base_name \o <<"_">> \o short \o <<"_">> \o Format02(counter) \o <<".", "s", "r", "t">>

\* FirstCounter as it would be were the numbering to start at 1
FirstCounterOne == 2 - 1

\* counter = 2
FirstCounter == 2

\* the while loop of generate_srt, at its test
RECURSIVE ResolveLoop(_, _, _, _, _)
ResolveLoop(files, path, base_name, short, counter) ==
  IF Exists(files, path)
  THEN ResolveLoop(files, SrtNumberedPath(base_name, short, counter),
                   base_name, short, counter + 1)
  ELSE path

\* ResolveSrtPath as it would be without the while loop
ResolveSrtPathUnchecked(files, audio_file, size) ==
  SrtBasePath(SplitextRoot(audio_file), ModelKey(size))

\* lines 100-109 of generate_srt: the path the subtitles are written to
ResolveSrtPath(files, audio_file, size) ==
  LET base_name == SplitextRoot(audio_file)
      short     == ModelKey(size)
  IN  ResolveLoop(files, SrtBasePath(base_name, short), base_name, short,
                  FirstCounter)

-----------------------------------------------------------------------------
(* The pure parts as state machines                                        *)

\* the three pure parts before they are used, on fixed inputs
CodecIdle  == sec = <<0, 0>> /\ stamp = <<>>
SrtIdle    == segments = <<>> /\ document = NoFile
SelectIdle == model_size = <<>> /\ model_path = "none"

\* sec_to_timestamp on the start and on the end of one segment
Encode ==
  /\ stamp = <<>>
  /\ stamp' = <<sec_to_timestamp(sec[1]), sec_to_timestamp(sec[2])>>
  /\ UNCHANGED <<sec, srtVars, selectVars, pipelineVars>>

\* write_srt(segments, srt_path) on a path that is free
Serialize ==
  /\ ~document.exists
  /\ document' = File(write_srt(segments))
  /\ UNCHANGED <<segments, codecVars, selectVars, pipelineVars>>

\* the lookup of generate_srt and the identifier handed to transcribe
Select ==
  /\ model_path = "none"
  /\ model_path' = ModelPath(model_size)
  /\ UNCHANGED <<model_size, codecVars, srtVars, pipelineVars>>

-----------------------------------------------------------------------------
(* The pipeline: process_youtube_to_srt and what it calls                  *)

\* the processes; the sequential specification runs one of them
Procs    == {1, 2}
SeqProcs == {1}

\* the directory the program is started in
StartDir == <<"/", "w">>

UrlA == <<"h", "t", "t", "p", "s", ":", "/", "/", "w", "w", "w", ".", "y", "o", "u", "t", "u", "b", "e", ".", "c", "o", "m", "/", "w", "a", "t", "c", "h", "?", "v", "=", "a", "b", "c", "1", "2", "3", "4", "5", "6", "7", "8">>

\* the same video, from its fifth second
UrlT == UrlA \o <<"&", "t", "=", "5">>

Urls    == { <<>>, UrlA, UrlT }
Formats == { <<"m", "p", "3">>, <<"w", "a", "v">> }
Sizes   == { <<"t", "i", "n", "y">>, <<"H", "u", "g", "e">> }

\* what mlx_whisper.transcribe may return as result["segments"]
Results ==
  { <<>>,
    << [start |-> 0, end |-> 2 * TicksPerSecond, text |-> <<" ", "H", "e", "l", "l", "o", " ", "w", "o", "r", "l", "d", " ">>] >> }

\* calls one process makes
MaxRuns == 2

\* content of an audio file: being written by the tool, and finished
PartialAudio  == <<"partial audio">>
CompleteAudio == <<"audio">>

\* content of the subtitle files found at the start
OldSrt == <<"o", "l", "d">>

NoArgs   == [url |-> <<>>, format |-> <<>>, model_size |-> <<>>]
NoResult == [returned |-> FALSE, segments |-> <<>>]
NoTrace  ==
  [tool |-> 0, transcribe |-> 0, write |-> 0, acquired |-> "no",
   hit |-> <<>>, model |-> "none"]
NoCall   == [url |-> <<>>, format |-> <<>>, path |-> <<>>]

\* the subtitle paths of UrlA and "tiny" that may exist at the start
InitialSrtPaths ==
  LET base_name == SplitextRoot(Join(WorkspaceDir(StartDir), ExpectedFile(UrlA, <<"m", "p", "3">>)))
  IN  { SrtBasePath(base_name, <<"t", "i", "n", "y">>),
        SrtNumberedPath(base_name, <<"t", "i", "n", "y">>, 2),
        SrtNumberedPath(base_name, <<"t", "i", "n", "y">>, 3) }

InitPipeline ==
  /\ \E S \in SUBSET InitialSrtPaths : fs = [path \in S |-> OldSrt]
  /\ cwd = [p \in Procs |-> StartDir]
  /\ pc = [p \in Procs |-> "idle"]
  /\ args = [p \in Procs |-> NoArgs]
  /\ audio_path = [p \in Procs |-> None]
  /\ result = [p \in Procs |-> NoResult]
  /\ srt_path = [p \in Procs |-> None]
  /\ trace = [p \in Procs |-> NoTrace]
  /\ last_audio = NoCall
  /\ runs = [p \in Procs |-> 0]

PipelineIdle ==
  /\ fs = << >>
  /\ cwd = [p \in Procs |-> StartDir]
  /\ pc = [p \in Procs |-> "idle"]
  /\ args = [p \in Procs |-> NoArgs]
  /\ audio_path = [p \in Procs |-> None]
  /\ result = [p \in Procs |-> NoResult]
  /\ srt_path = [p \in Procs |-> None]
  /\ trace = [p \in Procs |-> NoTrace]
  /\ last_audio = NoCall
  /\ runs = [p \in Procs |-> 0]

pureVars == <<codecVars, srtVars, selectVars>>

\* the file download_youtube_audio looks for, after its chdir
TargetFile(p) == Join(cwd[p], ExpectedFile(args[p].url, args[p].format))

\* files with the file at path (re)written
WriteFile(files, path, content) ==
  [q \in DOMAIN files \cup {path} |-> IF q = path THEN content ELSE files[q]]

\* files without the file at path
RemoveFile(files, path) == [q \in DOMAIN files \ {path} |-> files[q]]

\* process_youtube_to_srt(url, audio_format, model_size) is called
Invoke(p, url, format, size) ==
  /\ pc[p] = "idle"
  /\ runs[p] < MaxRuns
  /\ runs' = [runs EXCEPT ![p] = @ + 1]
  /\ args' = [args EXCEPT ![p] = [url |-> url, format |-> format, model_size |-> size]]
  /\ pc' = [pc EXCEPT ![p] = "download"]
  /\ UNCHANGED <<fs, cwd, audio_path, srt_path, result, trace, last_audio, pureVars>>

\* DownloadFailed as it would be were the returned path not tested
DownloadFailedNever(path) == FALSE

\* `if not audio_path:` of process_youtube_to_srt
DownloadFailed(path) == Falsy(path)

\* download_youtube_audio returns `path` to process_youtube_to_srt, which
\* gives up or goes on to generate_srt
DownloadReturns(p, path) ==
  /\ audio_path' = [audio_path EXCEPT ![p] = path]
  /\ pc' = [pc EXCEPT ![p] = IF DownloadFailed(path) THEN "failed" ELSE "generate"]
  /\ last_audio' =
       IF Falsy(path) THEN last_audio
       ELSE [url |-> args[p].url, format |-> args[p].format, path |-> path]

\* download_youtube_audio up to the cache test, and past it to the launch of
\* the tool
DownloadBegin(p) ==
  /\ pc[p] = "download"
  /\ IF Falsy(args[p].url)
     THEN /\ DownloadReturns(p, None)
          /\ trace' = [trace EXCEPT ![p].acquired = "failed"]
          /\ UNCHANGED cwd
     ELSE LET dir  == WorkspaceDir(cwd[p])
              file == Join(dir, ExpectedFile(args[p].url, args[p].format))
          IN  /\ cwd' = [cwd EXCEPT ![p] = dir]
              /\ IF Exists(fs, file)
                 THEN /\ DownloadReturns(p, file)
                      /\ trace' = [trace EXCEPT ![p].acquired = "yes",
                                                ![p].hit = fs[file]]
                 ELSE /\ pc' = [pc EXCEPT ![p] = "ytdlp"]
                      /\ UNCHANGED <<audio_path, last_audio, trace>>
  /\ UNCHANGED <<fs, args, result, srt_path, runs, pureVars>>

\* yt-dlp downloads the media and starts to extract the audio into the
\* expected file, or exits with an error, or exits normally having written
\* some other file
YtDlpFetch(p) ==
  /\ pc[p] = "ytdlp"
  /\ \E outcome \in {"extracting", "error", "other file"} :
       /\ trace' = [trace EXCEPT
                      ![p].tool = @ + 1,
                      ![p].acquired = IF outcome = "error" THEN "failed" ELSE @]
       /\ fs' = IF outcome = "extracting"
                THEN WriteFile(fs, TargetFile(p), PartialAudio)
                ELSE fs
       /\ IF outcome = "error"
          THEN DownloadReturns(p, None)
          ELSE /\ pc' = [pc EXCEPT ![p] =
                           IF outcome = "extracting" THEN "ytdlp_post" ELSE "dl_check"]
               /\ UNCHANGED <<audio_path, last_audio>>
  /\ UNCHANGED <<cwd, args, result, srt_path, runs, pureVars>>

\* yt-dlp finishes the extraction, or exits with an error and leaves or
\* removes what it has written
YtDlpFinish(p) ==
  /\ pc[p] = "ytdlp_post"
  /\ \E outcome \in {"ok", "error, file left", "error, file removed"} :
       /\ fs' = CASE outcome = "ok" -> WriteFile(fs, TargetFile(p), CompleteAudio)
                  [] outcome = "error, file left" -> fs
                  [] outcome = "error, file removed" -> RemoveFile(fs, TargetFile(p))
       /\ IF outcome = "ok"
          THEN /\ pc' = [pc EXCEPT ![p] = "dl_check"]
               /\ UNCHANGED <<audio_path, last_audio, trace>>
          ELSE /\ DownloadReturns(p, None)
               /\ trace' = [trace EXCEPT ![p].acquired = "failed"]
  /\ UNCHANGED <<cwd, args, result, srt_path, runs, pureVars>>

\* the test after the tool has returned
DownloadCheck(p) ==
  /\ pc[p] = "dl_check"
  /\ IF Exists(fs, TargetFile(p))
     THEN /\ DownloadReturns(p, TargetFile(p))
          /\ trace' = [trace EXCEPT ![p].acquired = "yes"]
     ELSE /\ DownloadReturns(p, None)
          /\ trace' = [trace EXCEPT ![p].acquired = "failed"]
  /\ UNCHANGED <<fs, cwd, args, result, srt_path, runs, pureVars>>

\* generate_srt up to the call of mlx_whisper.transcribe
GenerateBegin(p) ==
  /\ pc[p] = "generate"
  /\ IF ~Exists(fs, audio_path[p])
     THEN /\ pc' = [pc EXCEPT ![p] = "failed"]
          /\ UNCHANGED trace
     ELSE /\ pc' = [pc EXCEPT ![p] = "transcribe"]
          /\ trace' = [trace EXCEPT ![p].transcribe = @ + 1,
                                    ![p].model = ModelPath(args[p].model_size)]
  /\ UNCHANGED <<fs, cwd, args, audio_path, result, srt_path, last_audio, runs, pureVars>>

\* SrtFailed as it would be were the returned path not tested
SrtFailedNever(path) == FALSE

\* `if not srt_path:` of process_youtube_to_srt
SrtFailed(path) == Falsy(path)

\* generate_srt returns `path` to process_youtube_to_srt, which returns
GenerateReturns(p, path) ==
  /\ srt_path' = [srt_path EXCEPT ![p] = path]
  /\ pc' = [pc EXCEPT ![p] = IF SrtFailed(path) THEN "failed" ELSE "done"]

\* mlx_whisper.transcribe returns its result, or raises
TranscribeReturn(p) ==
  /\ pc[p] = "transcribe"
  /\ \/ \E segs \in Results :
          /\ result' = [result EXCEPT ![p] = [returned |-> TRUE, segments |-> segs]]
          /\ pc' = [pc EXCEPT ![p] = "resolve"]
          /\ UNCHANGED srt_path
     \/ /\ GenerateReturns(p, None)
        /\ UNCHANGED result
  /\ UNCHANGED <<fs, cwd, args, audio_path, trace, last_audio, runs, pureVars>>

\* the path of the subtitle file is chosen
ResolveSrt(p) ==
  /\ pc[p] = "resolve"
  /\ srt_path' = [srt_path EXCEPT ![p] =
                    ResolveSrtPath(fs, audio_path[p], args[p].model_size)]
  /\ pc' = [pc EXCEPT ![p] = "write"]
  /\ UNCHANGED <<fs, cwd, args, audio_path, result, trace, last_audio, runs, pureVars>>

\* write_srt opens the path for writing and writes the segments, or open raises
WriteSrt(p) ==
  /\ pc[p] = "write"
  /\ \/ /\ fs' = WriteFile(fs, srt_path[p], write_srt(result[p].segments))
        /\ trace' = [trace EXCEPT ![p].write = @ + 1]
        /\ GenerateReturns(p, srt_path[p])
     \/ /\ GenerateReturns(p, None)
        /\ UNCHANGED <<fs, trace>>
  /\ UNCHANGED <<cwd, args, audio_path, result, last_audio, runs, pureVars>>

\* process_youtube_to_srt has returned and its locals are gone; the process
\* may call again
Return(p) ==
  /\ pc[p] \in {"done", "failed"}
  /\ pc' = [pc EXCEPT ![p] = "idle"]
  /\ args' = [args EXCEPT ![p] = NoArgs]
  /\ audio_path' = [audio_path EXCEPT ![p] = None]
  /\ srt_path' = [srt_path EXCEPT ![p] = None]
  /\ result' = [result EXCEPT ![p] = NoResult]
  /\ trace' = [trace EXCEPT ![p] = NoTrace]
  /\ UNCHANGED <<fs, cwd, last_audio, runs, pureVars>>

\* the process ends and the program is started again in the same directory
Relaunch(p) ==
  /\ pc[p] = "idle"
  /\ cwd[p] # StartDir
  /\ cwd' = [cwd EXCEPT ![p] = StartDir]
  /\ UNCHANGED <<fs, pc, args, audio_path, result, srt_path, trace, last_audio,
                 runs, pureVars>>

\* one step of process p inside a call
Step(p) ==
  \/ DownloadBegin(p)
  \/ YtDlpFetch(p)
  \/ YtDlpFinish(p)
  \/ DownloadCheck(p)
  \/ GenerateBegin(p)
  \/ TranscribeReturn(p)
  \/ ResolveSrt(p)
  \/ WriteSrt(p)
  \/ Return(p)
  \/ Relaunch(p)

-----------------------------------------------------------------------------
(* Specifications                                                          *)

\* runs of the pipeline one after the other
Init == InitPipeline /\ CodecIdle /\ SrtIdle /\ SelectIdle

Next ==
  \E p \in SeqProcs :
    \/ \E url \in Urls, format \in Formats, size \in Sizes : Invoke(p, url, format, size)
    \/ Step(p)

Spec == Init /\ [][Next]_vars

\* two processes started in the same directory with the same arguments
InitConc == PipelineIdle /\ CodecIdle /\ SrtIdle /\ SelectIdle

NextConc ==
  \E p \in Procs :
    \/ Invoke(p, UrlA, <<"m", "p", "3">>, <<"t", "i", "n", "y">>)
    \/ Step(p)

SpecConc == InitConc /\ [][NextConc]_vars

\* sec_to_timestamp alone
InitCodec ==
  /\ \E a \in TimeInputs, d \in TimeDeltas : sec = <<a, a + d>>
  /\ stamp = <<>>
  /\ PipelineIdle /\ SrtIdle /\ SelectIdle

SpecCodec == InitCodec /\ [][Encode]_vars

\* write_srt alone
InitSrt ==
  /\ segments \in SegmentLists
  /\ document = NoFile
  /\ PipelineIdle /\ CodecIdle /\ SelectIdle

SpecSrt == InitSrt /\ [][Serialize]_vars

\* the model table alone
InitSelect ==
  /\ model_size \in SelectorInputs
  /\ model_path = "none"
  /\ PipelineIdle /\ CodecIdle /\ SrtIdle

SpecSelect == InitSelect /\ [][Select]_vars

-----------------------------------------------------------------------------
(* Vocabulary of the properties                                            *)

EndsWith(s, suffix) ==
  Len(s) >= Len(suffix) /\ SubSeq(s, Len(s) - Len(suffix) + 1, Len(s)) = suffix

IsSrtPath(path) == EndsWith(path, <<".", "s", "r", "t">>)

SrtFiles(files) == {path \in DOMAIN files : IsSrtPath(path)}

\* the stage of the orchestrator's state machine process p is in
Stage(p) ==
  CASE pc[p] = "idle" -> "Idle"
    [] pc[p] \in {"download", "ytdlp", "ytdlp_post", "dl_check"} -> "Acquiring"
    [] pc[p] \in {"generate", "transcribe"} -> "Transcribing"
    [] pc[p] \in {"resolve", "write"} -> "Serializing"
    [] pc[p] = "done" -> "Done"
    [] pc[p] = "failed" -> "Failed"

\* download_youtube_audio returns in this step
DownloadReturnsNow(p) ==
  /\ pc[p] \in {"download", "ytdlp", "ytdlp_post", "dl_check"}
  /\ pc'[p] \in {"generate", "failed"}

\* download_youtube_audio returns from its cache-hit branch in this step
CacheHitNow(p) == pc[p] = "download" /\ pc'[p] = "generate"

\* write_srt writes its file in this step
WritesNow(p) == trace'[p].write = trace[p].write + 1

-----------------------------------------------------------------------------
(* C1 *)

\* C1: no step changes or removes a subtitle file that exists; the path
\* generate_srt resolves is one at which no file exists, and write_srt
\* writes to such a path only, so that every write adds one more file.
C1_SubtitlesNeverOverwritten ==
  [][ /\ \A path \in SrtFiles(fs) : Exists(fs', path) /\ fs'[path] = fs[path]
      /\ \A p \in Procs :
           /\ (pc[p] = "resolve" /\ pc'[p] = "write") => ~Exists(fs, srt_path'[p])
           /\ WritesNow(p) =>
                /\ ~Exists(fs, srt_path[p])
                /\ Exists(fs', srt_path[p])
                /\ fs'[srt_path[p]] = write_srt(result[p].segments)
                /\ Cardinality(SrtFiles(fs')) = Cardinality(SrtFiles(fs)) + 1 ]_vars

\* the three subtitle files of the start are there, and two runs with the
\* same arguments from the same directory have each added a numbered one
C1_Witness ==
  /\ pc[1] = "done" /\ runs[1] = 2 /\ cwd[1] = WorkspaceDir(StartDir)
  /\ \A path \in InitialSrtPaths : Exists(fs, path) /\ fs[path] = OldSrt
  /\ Cardinality({path \in SrtFiles(fs) :
                    EndsWith(path, <<"_", "t", "i", "n", "y", "_", "0", "4", ".", "s", "r", "t">>) \/ EndsWith(path, <<"_", "t", "i", "n", "y", "_", "0", "5", ".", "s", "r", "t">>)}) = 2

-----------------------------------------------------------------------------
(* C3 *)

\* C3: once the acquisition of a run has failed, the run is in Failed, it
\* holds neither an audio path nor a subtitle path to return, and it has
\* neither called the transcription nor written a subtitle file.
C3_AcquisitionFailureEndsRun ==
  \A p \in Procs :
    trace[p].acquired = "failed" =>
      /\ pc[p] = "failed"
      /\ Falsy(audio_path[p])
      /\ Falsy(srt_path[p])
      /\ trace[p].transcribe = 0
      /\ trace[p].write = 0

\* a run has failed because the tool exited with an error
C3_Witness ==
  pc[1] = "failed" /\ trace[1].acquired = "failed" /\ trace[1].tool = 1

-----------------------------------------------------------------------------
(* C6 *)

StageOrder ==
  { <<"Idle", "Acquiring">>, <<"Acquiring", "Transcribing">>,
    <<"Transcribing", "Serializing">>, <<"Serializing", "Done">>,
    <<"Acquiring", "Failed">>, <<"Transcribing", "Failed">>,
    <<"Serializing", "Failed">>,
    \* the run is over, and the next call starts from Idle
    <<"Done", "Idle">>, <<"Failed", "Idle">> }

\* C6: a run's stage changes along Idle, Acquiring, Transcribing,
\* Serializing, Done, or to Failed from a stage that is not terminal, and
\* nothing follows Done or Failed in the run; the transcription is called
\* at most once and only with an acquired path, and the subtitle file is
\* written at most once and only once the transcription has returned.
C6_StrictStageSequence ==
  /\ [](\A p \in Procs :
          /\ trace[p].transcribe <= 1
          /\ trace[p].write <= 1
          /\ trace[p].transcribe = 1 =>
               ~Falsy(audio_path[p]) /\ trace[p].acquired = "yes"
          /\ trace[p].write = 1 => result[p].returned /\ trace[p].transcribe = 1
          /\ Stage(p) \in {"Transcribing", "Serializing", "Done"} =>
               trace[p].acquired = "yes"
          /\ Stage(p) \in {"Serializing", "Done"} => result[p].returned)
  /\ [][\A p \in Procs :
          Stage(p)' # Stage(p) => <<Stage(p), Stage(p)'>> \in StageOrder]_vars

\* a run is Done on an empty sequence of segments, its file written
C6_Witness ==
  /\ pc[1] = "done" /\ result[1].returned /\ result[1].segments = <<>>
  /\ trace[1].write = 1 /\ Exists(fs, srt_path[1]) /\ fs[srt_path[1]] = <<>>

-----------------------------------------------------------------------------
(* C7 *)

\* the two digits of k < 100
TwoDigits(k) == <<Chr(48 + (k \div 10)), Chr(48 + (k % 10))>>

\* the candidate paths of a run: the base path is candidate 1, and candidate
\* k >= 2 carries the suffix _k
Candidate(p, k) ==
  LET stem == Join(cwd[p], <<"y", "o", "u", "t", "u", "b", "e", "_">> \o VideoId(args[p].url))
                 \o <<"_">> \o Lower(args[p].model_size)
  IN  IF k = 1 THEN stem \o <<".", "s", "r", "t">>
      ELSE stem \o <<"_">> \o TwoDigits(k) \o <<".", "s", "r", "t">>

\* C7: the resolved path is the base path when that is free, and otherwise
\* the path with the smallest counter k >= 2 that is free: _02 when only the
\* base path exists, _03 when the base path and _02 exist.
C7_SuffixNumbering ==
  \A p \in Procs :
    pc[p] = "write" =>
      /\ \E k \in 1..(Cardinality(DOMAIN fs) + 1) :
           /\ srt_path[p] = Candidate(p, k)
           /\ ~Exists(fs, Candidate(p, k))
           /\ \A j \in 1..(k - 1) : Exists(fs, Candidate(p, j))
      /\ ~Exists(fs, Candidate(p, 1)) => EndsWith(srt_path[p], Lower(args[p].model_size) \o <<".", "s", "r", "t">>)
      /\ Exists(fs, Candidate(p, 1)) /\ ~Exists(fs, Candidate(p, 2)) =>
           EndsWith(srt_path[p], <<"_", "0", "2", ".", "s", "r", "t">>)
      /\ Exists(fs, Candidate(p, 1)) /\ Exists(fs, Candidate(p, 2))
           /\ ~Exists(fs, Candidate(p, 3)) =>
           EndsWith(srt_path[p], <<"_", "0", "3", ".", "s", "r", "t">>)

\* the base path was there at the start, the run before wrote _02, and this
\* run has resolved _03
C7_Witness ==
  /\ pc[1] = "write" /\ runs[1] = 2
  /\ EndsWith(srt_path[1], <<"_", "t", "i", "n", "y", "_", "0", "3", ".", "s", "r", "t">>)
  /\ fs[Candidate(1, 1)] = OldSrt
  /\ fs[Candidate(1, 2)] # OldSrt

-----------------------------------------------------------------------------
(* C2 *)

\* C2: when download_youtube_audio returns, and the last call that returned
\* a path had the same url and format, and the file it returned is still
\* there, then this call returns that same path and has not run the tool.
C2_AudioPathIdempotent ==
  [][\A p \in Procs :
       ( /\ DownloadReturnsNow(p)
         /\ last_audio # NoCall
         /\ last_audio.url = args[p].url
         /\ last_audio.format = args[p].format
         /\ Exists(fs, last_audio.path) )
       => /\ audio_path'[p] = last_audio.path
          /\ trace'[p].tool = 0]_vars

-----------------------------------------------------------------------------
(* C4 *)

\* C4: of two runs in progress, write_srt never opens a path at which a file
\* exists, no two runs are about to write the same path, and no run takes
\* the cache-hit branch on a path another run's tool is still producing.
C4_CriticalSectionPerPath ==
  [][\A p \in Procs :
       /\ WritesNow(p) => ~Exists(fs, srt_path[p])
       /\ \A q \in Procs \ {p} :
            /\ (pc'[p] = "write" /\ pc'[q] = "write") => srt_path'[p] # srt_path'[q]
            /\ CacheHitNow(p) =>
                 ~(pc[q] \in {"ytdlp", "ytdlp_post"} /\ TargetFile(q) = audio_path'[p])
    ]_vars

-----------------------------------------------------------------------------
(* C5 *)

\* C5: the file a run takes as a cache hit is a finished audio file, never
\* one a failed acquisition left behind; and when the transcription of a
\* run has failed, the audio file of the run is there as it was acquired.
C5_FailureLeavesNoMisleadingArtifact ==
  \A p \in Procs :
    /\ trace[p].hit # <<>> => trace[p].hit = CompleteAudio
    /\ (pc[p] = "failed" /\ trace[p].transcribe = 1 /\ ~result[p].returned) =>
         /\ Exists(fs, audio_path[p])
         /\ fs[audio_path[p]] = IF trace[p].hit # <<>> THEN trace[p].hit ELSE CompleteAudio

-----------------------------------------------------------------------------
(* C8 *)

IsDigit(c) == c \in {"0", "1", "2", "3", "4", "5", "6", "7", "8", "9"}

\* the number a string of digits denotes
RECURSIVE Value(_)
Value(s) ==
  IF s = <<>> THEN 0 ELSE 10 * Value(SubSeq(s, 1, Len(s) - 1)) + (Ord(s[Len(s)]) - 48)

\* a <= b in the lexicographic order of the character codes
RECURSIVE LexLeq(_, _)
LexLeq(a, b) ==
  IF a = <<>> THEN TRUE
  ELSE IF b = <<>> THEN FALSE
  ELSE IF Ord(Head(a)) # Ord(Head(b)) THEN Ord(Head(a)) < Ord(Head(b))
  ELSE LexLeq(Tail(a), Tail(b))

\* floor(fraction x 1000) and round(fraction x 1000), ties to the even
FractionFloor(t) == ((t % TicksPerSecond) * 1000) \div TicksPerSecond
FractionRound(t) ==
  LET n == (t % TicksPerSecond) * 1000
      q == n \div TicksPerSecond
      r == n % TicksPerSecond
  IN  IF 2 * r > TicksPerSecond \/ (2 * r = TicksPerSecond /\ q % 2 = 1)
      THEN q + 1 ELSE q

\* s is HH:MM:SS,mmm for the offset t, with `millis` its last field
Encodes(s, t, millis) ==
  LET n == Len(s)
      hh == SubSeq(s, 1, n - 10)
      mm == SubSeq(s, n - 8, n - 7)
      ss == SubSeq(s, n - 5, n - 4)
      ms == SubSeq(s, n - 2, n)
  IN  /\ n >= 12
      /\ s[n - 9] = ":" /\ s[n - 6] = ":" /\ s[n - 3] = ","
      /\ \A i \in (1..n) \ {n - 9, n - 6, n - 3} : IsDigit(s[i])
      /\ Len(hh) > 2 => hh[1] # "0"
      /\ Value(hh) = t \div (3600 * TicksPerSecond)
      /\ Value(mm) = (t % (3600 * TicksPerSecond)) \div (60 * TicksPerSecond)
      /\ Value(ss) = (t % (60 * TicksPerSecond)) \div TicksPerSecond
      /\ Value(ms) = millis

SameHour(a, b) == a \div (3600 * TicksPerSecond) = b \div (3600 * TicksPerSecond)

EncodeExamples ==
  \A i \in 1..2 :
    /\ sec[i] = 0 => stamp[i] = <<"0", "0", ":", "0", "0", ":", "0", "0", ",", "0", "0", "0">>
    /\ sec[i] = T3661_5 => stamp[i] = <<"0", "1", ":", "0", "1", ":", "0", "1", ",", "5", "0", "0">>

EncodeMonotone ==
  (sec[1] <= sec[2] /\ SameHour(sec[1], sec[2])) => LexLeq(stamp[1], stamp[2])

\* C8 as claimed: the last field is round(fraction x 1000)
C8_TimestampRounded ==
  stamp # <<>> =>
    /\ \A i \in 1..2 : Encodes(stamp[i], sec[i], FractionRound(sec[i]))
    /\ EncodeExamples
    /\ EncodeMonotone

\* C8 as amended: the timestamp is HH:MM:SS,mmm with the hours in at least
\* two digits, minutes and seconds in two and milliseconds in three, the
\* milliseconds being floor(fraction x 1000); encode(0) and encode(3661.5)
\* are as stated; increasing offsets of one hour give non-decreasing stamps.
C8_TimestampTruncated ==
  stamp # <<>> =>
    /\ \A i \in 1..2 : Encodes(stamp[i], sec[i], FractionFloor(sec[i]))
    /\ EncodeExamples
    /\ EncodeMonotone

\* the offset one tick before 3661.5 s, whose fraction rounds up to 500, and
\* 3661.5 s itself are encoded
C8_Witness ==
  /\ stamp # <<>>
  /\ sec[1] = T3661_5 - 1 /\ sec[2] = T3661_5
  /\ FractionRound(sec[1]) = 500 /\ FractionFloor(sec[1]) = 499
  /\ stamp[1] = <<"0", "1", ":", "0", "1", ":", "0", "1", ",", "4", "9", "9">>
  /\ stamp[2] = <<"0", "1", ":", "0", "1", ":", "0", "1", ",", "5", "0", "0">>

-----------------------------------------------------------------------------
(* C9 *)

\* the lines of a text in which every line ends with a newline
RECURSIVE Lines(_)
Lines(s) ==
  IF s = <<>> THEN <<>>
  ELSE LET nl == CHOOSE i \in 1..Len(s) : s[i] = "\n" /\ \A j \in 1..(i - 1) : s[j] # "\n"
       IN  <<SubSeq(s, 1, nl - 1)>> \o Lines(SubSeq(s, nl + 1, Len(s)))

\* line is text without its leading and trailing whitespace
StrippedOf(text, line) ==
  \E a \in 0..Len(text) : \E b \in a..Len(text) :
    /\ line = SubSeq(text, a + 1, b)
    /\ \A i \in (1..a) \cup ((b + 1)..Len(text)) : IsSpace(text[i])
    /\ line # <<>> => ~IsSpace(line[1]) /\ ~IsSpace(line[Len(line)])

\* C9: the file write_srt leaves holds, for the N segments in the order
\* given, N blocks of four lines: the position i, the two timestamps of
\* segment i around " --> ", its text stripped, and an empty line; for no
\* segments the file is empty.
C9_SerializerPassthrough ==
  document.exists =>
    LET doc == document.content
        N   == Len(segments)
    IN  /\ N = 0 => doc = <<>>
        /\ doc # <<>> => doc[Len(doc)] = "\n"
        /\ Len(Lines(doc)) = 4 * N
        /\ \A i \in 1..N :
             /\ Lines(doc)[4 * i - 3] = Dec(i)
             /\ Lines(doc)[4 * i - 2] =
                  sec_to_timestamp(segments[i].start) \o <<" ", "-", "-", ">", " ">>
                    \o sec_to_timestamp(segments[i].end)
             /\ StrippedOf(segments[i].text, Lines(doc)[4 * i - 1])
             /\ Lines(doc)[4 * i] = <<>>

\* two segments out of order, the first ending before it starts, are written
C9_Witness ==
  /\ document.exists
  /\ Len(segments) = 2
  /\ segments[1].start > segments[2].start
  /\ segments[1].end < segments[1].start
  /\ segments[1].text = <<" ", "H", "e", "l", "l", "o", " ", "w", "o", "r", "l", "d", " ">>

-----------------------------------------------------------------------------
(* C10 *)

\* the selectors of the table, as the claim lists them
TableSelectors ==
  { <<"t", "i", "n", "y">>, <<"b", "a", "s", "e">>, <<"s", "m", "a", "l", "l">>, <<"m", "e", "d", "i", "u", "m">>, <<"l", "a", "r", "g", "e">>, <<"l", "a", "r", "g", "e", "-", "4", "b", "i", "t">>,
    <<"t", "u", "r", "b", "o">>, <<"t", "u", "r", "b", "o", "-", "4", "b", "i", "t">> }

EqualIgnoringCase(a, b) ==
  Len(a) = Len(b) /\ \A i \in 1..Len(a) : UpperChar(a[i]) = UpperChar(b[i])

Entry(name) == (CHOOSE e \in model_map : e[1] = name)[2]

\* C10: a selector that is a name of the table in any case is handed to the
\* engine as that name's entry, and any other selector as the entry of
\* turbo-4bit; every selector yields an identifier of the table.
C10_ModelSelectorTotal ==
  model_path # "none" =>
    /\ {e[1] : e \in model_map} = TableSelectors
    /\ \A name \in TableSelectors :
         EqualIgnoringCase(model_size, name) => model_path = Entry(name)
    /\ (\A name \in TableSelectors : ~EqualIgnoringCase(model_size, name)) =>
         model_path = Entry(<<"t", "u", "r", "b", "o", "-", "4", "b", "i", "t">>)
    /\ model_path \in {e[2] : e \in model_map}

\* a selector of the table in another case has been looked up, and it is
\* not the default's
C10_Witness ==
  /\ model_path # "none"
  /\ model_size = <<"T", "I", "N", "Y">>
  /\ model_path = "mlx-community/whisper-tiny-mlx"

=============================================================================
